---- MODULE Spec2Model ----
(***************************************************************************)
(* Model of the thresholding engine of CellProfiler's Identify module      *)
(* (pyCellProfiler/cellprofiler/modules/identify.py).                      *)
(*                                                                         *)
(* Intensities and thresholds are reals; they are modelled as normalised   *)
(* rationals [n, d] with d > 0, and the IEEE not-a-number as d = 0.        *)
(* Arrays are row-major sequences together with their shape.               *)
(***************************************************************************)
EXTENDS Integers, Sequences, FiniteSets, TLC

VARIABLES
    threshold_method,            \* the method setting: a string, as its sequence of words and " "
    threshold_range,             \* [min, max]
    threshold_correction_factor,
    manual_threshold,
    object_fraction,
    image_shape,                 \* <<rows, columns>>
    image,                       \* row-major pixels
    mask,                        \* row-major booleans
    objects,                     \* None, or Objects(labels): labels is objects.segmented, row-major
    pc,                          \* position in the running function
    calls,                       \* functions invoked so far
    global_threshold,
    local_threshold,
    blk,                         \* <<i, j>> of the adaptive block loop
    lbl,                         \* i of the per-object loop
    writes,                      \* per pixel: number of assignments to the output grid
    history,                     \* per loop iteration: the threshold it computed
    returned,                    \* Value(v) once v is returned, None before
    raised,                      \* Raise(type, arg) once raised, None before
    threshold_arg,               \* the argument threshold of weighted_variance and sum_of_entropies
    cropped_image,               \* the working array of a library function
    clamped_image,               \* the working array of weighted_variance and sum_of_entropies
    random_state,                \* the state of the process-wide generator numpy.random
    im_normalized,               \* im of get_ridler_calvard_threshold: the normalised log sample
    pre_thresh,
    new_thresh

vars == << threshold_method, threshold_range, threshold_correction_factor,
           manual_threshold, object_fraction, image_shape, image, mask, objects,
           pc, calls, global_threshold, local_threshold, blk, lbl, writes,
           history, returned, raised, threshold_arg, cropped_image, clamped_image,
           random_state, im_normalized, pre_thresh, new_thresh >>

\* the locals of the functions that are not running
locals == << threshold_arg, cropped_image, clamped_image, im_normalized, pre_thresh,
            new_thresh >>

\* Python's None; a value is held as Value(v), an exception as Raise(type, arg)
None == [kind |-> "none"]

(***************************************************************************)
(* Bounds of the model                                                     *)
(***************************************************************************)
MaxSample == 6

(***************************************************************************)
(* Real arithmetic                                                         *)
(***************************************************************************)
Abs(x) == IF x < 0 THEN -x ELSE x

RECURSIVE GCD(_, _)
GCD(a, b) == IF b = 0 THEN a ELSE GCD(b, a % b)

Rat(n, d) == LET g == GCD(Abs(n), d) IN [n |-> n \div g, d |-> d \div g]

NaN == [n |-> 0, d |-> 0]
Zero == Rat(0, 1)
One == Rat(1, 1)

IsNaN(x) == x.d = 0

\* IEEE comparisons: every comparison with a NaN is false
Lt(a, b) == a.d # 0 /\ b.d # 0 /\ a.n * b.d < b.n * a.d
Gt(a, b) == Lt(b, a)
Le(a, b) == a.d # 0 /\ b.d # 0 /\ a.n * b.d <= b.n * a.d

Mul(a, b) == IF IsNaN(a) \/ IsNaN(b) THEN NaN ELSE Rat(a.n * b.n, a.d * b.d)

\* Python's builtin max(a, b) and min(a, b): the first argument unless the
\* second compares strictly beyond it
py_max(a, b) == IF Gt(b, a) THEN b ELSE a
py_min(a, b) == IF Lt(b, a) THEN b ELSE a

(***************************************************************************)
(* Samples                                                                 *)
(***************************************************************************)
Intensities == { Rat(0, 1), Rat(3, 10), Rat(3, 5) }

\* Values standing for the result of a floating-point estimation the model
\* does not evaluate (EM fit, log-domain iteration, entropy split, sqrt)
OpaqueThresholds == { Rat(1, 5), Rat(1, 2), Rat(3, 2) }

RECURSIVE Select(_, _)
Select(s, keep) ==
    IF s = << >> THEN << >>
    ELSE IF keep[1] THEN << s[1] >> \o Select(Tail(s), Tail(keep))
         ELSE Select(Tail(s), Tail(keep))

\* image[mask]: the pixels whose mask is true, in row-major order
Crop(img, msk) == Select(img, msk)

Range(s) == { s[k] : k \in DOMAIN s }

IsConstant(s) == \A a \in Range(s) : \A b \in Range(s) : a = b

RECURSIVE Insert(_, _)
Insert(x, s) ==
    IF s = << >> THEN << x >>
    ELSE IF Lt(s[1], x) THEN << s[1] >> \o Insert(x, Tail(s))
         ELSE << x >> \o s

RECURSIVE Sort(_)
Sort(s) == IF s = << >> THEN << >> ELSE Insert(s[1], Sort(Tail(s)))

\* Python's s[lo:hi] for 0 <= lo and hi <= 0 counted from the end (hi = -chop)
Slice(s, lo, negHi) ==
    LET hi == IF negHi = 0 THEN 0 ELSE Len(s) - negHi
    IN  IF hi <= lo THEN << >> ELSE SubSeq(s, lo + 1, hi)

RECURSIVE SumN(_)
SumN(s) == IF s = << >> THEN Zero
           ELSE LET t == SumN(Tail(s))
                IN  Rat(s[1].n * t.d + t.n * s[1].d, s[1].d * t.d)

Mean(s) == IF s = << >> THEN NaN
           ELSE LET t == SumN(s) IN Rat(t.n, t.d * Len(s))

Value(v) == [kind |-> "value", v |-> v]
Raise(type, arg) == [kind |-> "raise", type |-> type, arg |-> arg]

NoLocals ==
    /\ threshold_arg = None
    /\ cropped_image = None
    /\ clamped_image = None
    /\ im_normalized = << >>
    /\ pre_thresh = None
    /\ new_thresh = None

(***************************************************************************)
(* Method strings.  A string is the sequence of its words and of the " "   *)
(* between them; str.split(' ') cuts it at every " ".                      *)
(***************************************************************************)
TM_OTSU == << "Otsu" >>
TM_MOG == << "MoG" >>
TM_BACKGROUND == << "Background" >>
TM_ROBUST_BACKGROUND == << "RobustBackground" >>
TM_RIDLER_CALVARD == << "RidlerCalvard" >>
TM_KAPUR == << "Kapur" >>
TM_MANUAL == << "Manual" >>
TM_GLOBAL == << "Global" >>
TM_ADAPTIVE == << "Adaptive" >>
TM_PER_OBJECT == << "PerObject" >>

Algorithms == { TM_OTSU, TM_MOG, TM_BACKGROUND, TM_ROBUST_BACKGROUND,
                TM_RIDLER_CALVARD, TM_KAPUR }
Modifiers == { TM_GLOBAL, TM_ADAPTIVE, TM_PER_OBJECT }

RECURSIVE split(_)
split(s) ==
    IF s = << >> THEN << << >> >>
    ELSE LET rest == split(Tail(s))
         IN  IF s[1] = " " THEN << << >> >> \o rest
             ELSE << << s[1] >> \o rest[1] >> \o Tail(rest)

\* parts[0]
get_threshold_algorithm(method) == split(method)[1]

\* parts[1]: an IndexError when the string has no " "
get_threshold_modifier(method) ==
    LET parts == split(method)
    IN  IF Len(parts) >= 2 THEN [kind |-> "value", s |-> parts[2]]
        ELSE Raise("IndexError", << >>)

(***************************************************************************)
(* Global algorithm library: each operator is the set of values the        *)
(* function can return on the sample                                       *)
(***************************************************************************)
min_pixels == 3
nbins == 256
robust_min == Rat(2, 100)
robust_max == Rat(98, 100)
chop_percent == 5

\* cellprofiler.cpmath.otsu.otsu(data, min_threshold, max_threshold)
otsu(sample, lo, hi) ==
    IF sample = << >> THEN { Zero }
    ELSE IF IsConstant(sample) THEN { sample[1] }
    ELSE IF Len(sample) < min_pixels THEN { Zero }
    ELSE { v \in OpaqueThresholds \cup { lo, hi } : ~Lt(v, lo) /\ ~Gt(v, hi) }

max_count == 262144

\* lines 204-210: whether get_mog_threshold, on a sample of pixel_count
\* elements, gets past its two early returns and subsamples
mog_subsamples(pixel_count, constant) ==
    LET background_fraction == Rat(object_fraction.d - object_fraction.n, object_fraction.d)
        m == py_min(object_fraction, background_fraction)
    IN  /\ ~(pixel_count * m.n < min_pixels * m.d)
        /\ ~constant
        /\ pixel_count > max_count

\* numpy.random before any call, and after numpy.random.seed(0) and the
\* permutation drawn from it (lines 210-211)
CallerRandomState == "caller"
Reseeded == "seed(0), permutation"

\* numpy.random after get_global_threshold ran on the sample
random_state_after(sample) ==
    IF /\ get_threshold_algorithm(threshold_method) = TM_MOG
       /\ mog_subsamples(Len(sample), IsConstant(sample))
      THEN Reseeded ELSE random_state

get_mog_threshold(sample) ==
    LET background_fraction == Rat(object_fraction.d - object_fraction.n, object_fraction.d)
        m == py_min(object_fraction, background_fraction)
    IN  IF Len(sample) * m.n < min_pixels * m.d THEN { One }
        ELSE IF IsConstant(sample) THEN { sample[1] }
        ELSE OpaqueThresholds

\* scipy.ndimage.histogram(x, 0, 1, nbins): the bin of a value in [0, 1)
Bin(v) == (v.n * nbins) \div v.d

BinCount(s, b) == Cardinality({ k \in DOMAIN s : Bin(s[k]) = b })

\* numpy.argmax of the histogram: the first bin holding the largest count
ArgMaxBin(s) ==
    IF s = << >> THEN 0
    ELSE CHOOSE b \in { Bin(s[k]) : k \in DOMAIN s } :
            \A c \in { Bin(s[k]) : k \in DOMAIN s } :
                \/ BinCount(s, c) < BinCount(s, b)
                \/ BinCount(s, c) = BinCount(s, b) /\ b <= c

RECURSIVE Between(_, _, _)
Between(s, lo, hi) ==
    IF s = << >> THEN << >>
    ELSE IF Gt(s[1], lo) /\ Lt(s[1], hi) THEN << s[1] >> \o Between(Tail(s), lo, hi)
         ELSE Between(Tail(s), lo, hi)

get_background_threshold(sample) ==
    IF Len(sample) = 0 THEN { Zero }
    ELSE IF IsConstant(sample) THEN { sample[1] }
    ELSE LET index == ArgMaxBin(Between(sample, robust_min, robust_max))
         IN  { Rat(2 * index, nbins - 1) }

get_robust_background_threshold(sample) ==
    IF Len(sample) < min_pixels THEN { Zero }
    ELSE IF IsConstant(sample) THEN { sample[1] }
    ELSE LET chop == (Len(sample) * chop_percent + 50) \div 100
             im == Slice(Sort(sample), chop, chop)
         IN  IF im = << >> THEN { NaN }
             ELSE IF IsConstant(im) THEN { Mean(im) }
             ELSE { v \in OpaqueThresholds : Gt(v, Mean(im)) }

\* variant: the constant sample is recognised before the size is checked
get_ridler_calvard_threshold_ConstantFirst(sample) ==
    IF sample # << >> /\ IsConstant(sample) THEN { sample[1] }
    ELSE IF Len(sample) < min_pixels THEN { Zero }
    ELSE OpaqueThresholds

get_ridler_calvard_threshold(sample) ==
    IF Len(sample) < min_pixels THEN { Zero }
    ELSE IF IsConstant(sample) THEN { sample[1] }
    ELSE OpaqueThresholds

\* variant: without the min == max shortcut
get_kapur_threshold_NoConstantCheck(sample) ==
    IF Len(sample) < min_pixels THEN { Zero } ELSE OpaqueThresholds

get_kapur_threshold(sample) ==
    IF Len(sample) < min_pixels THEN { Zero }
    ELSE IF IsConstant(sample) THEN { sample[1] }
    ELSE OpaqueThresholds

\* The outcomes of get_global_threshold(image, mask) under the configured
\* method.  The message of the final raise reads .value of the algorithm
\* name, which is a str: evaluating it raises AttributeError.
get_global_threshold(img, msk) ==
    LET threshold_algorithm == get_threshold_algorithm(threshold_method)
        sample == Crop(img, msk)
        results ==
            IF threshold_algorithm = TM_OTSU
              THEN otsu(sample, threshold_range.min, threshold_range.max)
            ELSE IF threshold_algorithm = TM_MOG THEN get_mog_threshold(sample)
            ELSE IF threshold_algorithm = TM_BACKGROUND THEN get_background_threshold(sample)
            ELSE IF threshold_algorithm = TM_ROBUST_BACKGROUND
              THEN get_robust_background_threshold(sample)
            ELSE IF threshold_algorithm = TM_RIDLER_CALVARD
              THEN get_ridler_calvard_threshold(sample)
            ELSE IF threshold_algorithm = TM_KAPUR THEN get_kapur_threshold(sample)
            ELSE { }
    IN  IF threshold_algorithm \in Algorithms
          THEN { Value(v) : v \in results }
          ELSE { Raise("AttributeError", << "str", "value" >>) }

(***************************************************************************)
(* get_global_threshold run on its own                                     *)
(***************************************************************************)
Join(algorithm, modifier) == algorithm \o << " " >> \o modifier

ObjectFractions == { Rat(1, 2), Rat(1, 4) }

\* masks of an n-pixel image: the first pixel and the others, each kept or dropped
MaskPatterns(n) == { [k \in 1..n |-> IF k = 1 THEN a ELSE b] : a \in BOOLEAN, b \in BOOLEAN }

Idle ==
    /\ calls = { }
    /\ global_threshold = None
    /\ local_threshold = None
    /\ blk = << 0, 0 >>
    /\ lbl = 0
    /\ writes = << >>
    /\ history = << >>
    /\ returned = None
    /\ raised = None
    /\ random_state = CallerRandomState
    /\ NoLocals

InitGlobal ==
    /\ threshold_method \in { Join(a, TM_GLOBAL) : a \in Algorithms \cup { << "Foo" >> } }
    /\ threshold_range = [min |-> Zero, max |-> One]
    /\ threshold_correction_factor = One
    /\ manual_threshold = Zero
    /\ object_fraction \in IF get_threshold_algorithm(threshold_method) = TM_MOG
                             THEN ObjectFractions ELSE { Rat(1, 2) }
    /\ \E n \in 0..MaxSample :
          /\ image_shape = << 1, n >>
          /\ image \in [1..n -> Intensities]
          /\ mask \in MaskPatterns(n)
    /\ objects = None
    /\ pc = "get_global_threshold"
    /\ Idle

GlobalThreshold ==
    /\ pc = "get_global_threshold"
    /\ \E o \in get_global_threshold(image, mask) :
          /\ returned' = IF o.kind = "value" THEN o ELSE returned
          /\ raised' = IF o.kind = "raise" THEN o ELSE raised
    /\ calls' = calls \cup { "get_global_threshold" }
    /\ pc' = "done"
    /\ UNCHANGED << threshold_method, threshold_range, threshold_correction_factor,
                    manual_threshold, object_fraction, image_shape, image, mask,
                    objects, global_threshold, local_threshold, blk, lbl, writes,
                    history >>
    /\ random_state' = random_state_after(Crop(image, mask))
    /\ UNCHANGED locals

NextGlobal == GlobalThreshold

SpecGlobal == InitGlobal /\ [][NextGlobal]_vars

(***************************************************************************)
(* Claims about the global algorithm library (under SpecGlobal)            *)
(***************************************************************************)
GlobalDone == pc = "done" /\ get_threshold_algorithm(threshold_method) \in Algorithms

TheSample == Crop(image, mask)

TheAlgorithm == get_threshold_algorithm(threshold_method)

\* the size from which an algorithm looks at the values of its sample
PassesSizeCheck ==
    CASE TheAlgorithm \in { TM_OTSU, TM_BACKGROUND } -> Len(TheSample) >= 1
      [] TheAlgorithm = TM_MOG ->
            LET m == IF 2 * object_fraction.n <= object_fraction.d
                       THEN object_fraction.n
                       ELSE object_fraction.d - object_fraction.n
            IN  Len(TheSample) * m >= 3 * object_fraction.d
      [] OTHER -> Len(TheSample) >= 3

SmallSampleAnswer == IF TheAlgorithm = TM_MOG THEN One ELSE Zero

\* C5 as stated: every algorithm returns the constant of a non-empty constant
\* sample of any size.
C5_ConstantSampleAnySize ==
    (GlobalDone /\ TheSample # << >> /\ IsConstant(TheSample))
        => returned = Value(TheSample[1])

\* C5, amended: on a non-empty constant sample get_global_threshold returns the
\* constant when the sample passes the algorithm's size check (1 element for
\* Otsu and Background, 3 for RobustBackground, RidlerCalvard and Kapur,
\* 3 / min(object_fraction, 1 - object_fraction) for MoG), and otherwise the
\* algorithm's small-sample answer (1 for MoG, 0 for the others).
C5_ConstantSample ==
    (GlobalDone /\ TheSample # << >> /\ IsConstant(TheSample))
        => returned = Value(IF PassesSizeCheck THEN TheSample[1] ELSE SmallSampleAnswer)

C5_Witness ==
    /\ GlobalDone
    /\ TheAlgorithm = TM_MOG
    /\ Len(TheSample) >= 6
    /\ IsConstant(TheSample)
    /\ TheSample[1] = Rat(3, 10)
    /\ returned = Value(Rat(3, 10))

LowestRobustBin(sample) ==
    LET bins == { (sample[k].n * 256) \div sample[k].d :
                    k \in { j \in DOMAIN sample :
                              /\ 2 * sample[j].d < 100 * sample[j].n
                              /\ 100 * sample[j].n < 98 * sample[j].d } }
    IN  IF bins = { } THEN 0 ELSE CHOOSE b \in bins : \A c \in bins : b <= c

Pow2Enclosure(r, v) ==
    /\ r.d # 0
    /\ (100 * v.d + 69 * v.n) * r.d <= r.n * 100 * v.d
    /\ r.n * v.d <= (v.d + v.n) * r.d

\* C13 as stated: Kapur on a sample whose pixels all share one value v returns 2^v.
C13_KapurConstantPow2 ==
    (GlobalDone /\ TheAlgorithm = TM_KAPUR /\ TheSample # << >> /\ IsConstant(TheSample))
        => returned.kind = "value" /\ Pow2Enclosure(returned.v, TheSample[1])

\* C13, amended: Kapur on a sample whose pixels all share one value v returns
\* v itself when the sample has at least 3 elements and 0 when it has fewer;
\* it never returns 2^v.
C13_KapurConstant ==
    (GlobalDone /\ TheAlgorithm = TM_KAPUR /\ TheSample # << >> /\ IsConstant(TheSample))
        => /\ returned = Value(IF Len(TheSample) >= 3 THEN TheSample[1] ELSE Zero)
           /\ ~Pow2Enclosure(returned.v, TheSample[1])

C13_Witness ==
    /\ GlobalDone
    /\ TheAlgorithm = TM_KAPUR
    /\ TheSample = << Rat(3, 5), Rat(3, 5), Rat(3, 5), Rat(3, 5) >>
    /\ returned = Value(Rat(3, 5))

\* the sorted sample without its round(5% of n) lowest and highest values
Trimmed(sample) ==
    LET chop == (Len(sample) * 5 + 50) \div 100
    IN  SubSeq(Sort(sample), chop + 1, Len(sample) - chop)

\* C14: on a sample of at least 3 elements with min # max,
\* get_robust_background_threshold returns mean + 2 * stddev of the sorted
\* sample without its lowest and highest 5%: that remainder is not empty, and
\* the result is a number not below the remainder's mean.
C14_RobustBackgroundTrimmedMean ==
    (GlobalDone /\ TheAlgorithm = TM_ROBUST_BACKGROUND
        /\ Len(TheSample) >= 3 /\ ~IsConstant(TheSample))
        => /\ Trimmed(TheSample) # << >>
           /\ returned.kind = "value"
           /\ Le(Mean(Trimmed(TheSample)), returned.v)

(***************************************************************************)
(* Per-object thresholder: get_per_object_threshold(image, mask, objects,  *)
(* threshold)                                                              *)
(***************************************************************************)
MaxLabel == 2

Objects(labels) == [kind |-> "objects", segmented |-> labels]

NPixels(shape) == shape[1] * shape[2]

RowOf(p, shape) == (p - 1) \div shape[2]
ColOf(p, shape) == (p - 1) % shape[2]

SetMin(S) == CHOOSE x \in S : \A y \in S : x <= y
SetMax(S) == CHOOSE x \in S : \A y \in S : y <= x

\* numpy.max(labels)
MaxOf(labels) == SetMax(Range(labels))

NoExtent == [none |-> TRUE]

\* scipy.ndimage.find_objects(labels, max_label): per label 1..max_label its
\* bounding box as the slices r0:r1, c0:c1, or None for a label with no pixel
find_objects(labels, shape, max_label) ==
    [i \in 1..max_label |->
        LET P == { p \in DOMAIN labels : labels[p] = i }
        IN  IF P = { } THEN NoExtent
            ELSE [none |-> FALSE,
                  r0 |-> SetMin({ RowOf(p, shape) : p \in P }),
                  r1 |-> SetMax({ RowOf(p, shape) : p \in P }) + 1,
                  c0 |-> SetMin({ ColOf(p, shape) : p \in P }),
                  c1 |-> SetMax({ ColOf(p, shape) : p \in P }) + 1]]

\* The flat positions that a[extent] views, in the view's row-major order;
\* a[None] views the whole array
ExtentIndices(extent, shape) ==
    IF extent.none THEN [k \in 1..NPixels(shape) |-> k]
    ELSE LET w == extent.c1 - extent.c0
             h == extent.r1 - extent.r0
         IN  [k \in 1..(h * w) |->
                (extent.r0 + ((k - 1) \div w)) * shape[2] + extent.c0 + ((k - 1) % w) + 1]

\* a[extent]
View(a, extent, shape) ==
    LET idx == ExtentIndices(extent, shape) IN [k \in DOMAIN idx |-> a[idx[k]]]

\* variant: labels[extent] == i alone, the mask left out
label_mask_IgnoringMask(msk, labels, extent, shape, i) ==
    LET l == View(labels, extent, shape) IN [k \in DOMAIN l |-> l[k] = i]

\* numpy.logical_and(mask[extent], labels[extent] == i)
label_mask(msk, labels, extent, shape, i) ==
    LET m == View(msk, extent, shape)
        l == View(labels, extent, shape)
    IN  [k \in DOMAIN m |-> m[k] /\ l[k] = i]

\* variant: a[extent] = value, the whole bounding box
Assigned_WholeExtent(extent, shape, sel) ==
    LET idx == ExtentIndices(extent, shape) IN { idx[k] : k \in DOMAIN sel }

\* the flat positions assigned by a[extent][sel] = value
Assigned(extent, shape, sel) ==
    LET idx == ExtentIndices(extent, shape) IN { idx[k] : k \in { j \in DOMAIN sel : sel[j] } }

PerObjectShapes == { << 1, 3 >>, << 2, 2 >> }

\* the images of n pixels: a uniform one and a ramp through the intensities
Images(n) ==
    { [k \in 1..n |-> Rat(3, 10)], [k \in 1..n |-> Rat(3 * ((k - 1) % 3), 10)] }

InitPerObject ==
    /\ threshold_method \in { Join(a, TM_PER_OBJECT) : a \in Algorithms }
    /\ threshold_range = [min |-> Zero, max |-> One]
    /\ threshold_correction_factor = One
    /\ manual_threshold = Zero
    /\ object_fraction = Rat(1, 2)
    /\ image_shape \in PerObjectShapes
    /\ image \in Images(NPixels(image_shape))
    /\ mask \in [1..NPixels(image_shape) -> BOOLEAN]
    /\ objects \in { None } \cup
                   { Objects(l) : l \in [1..NPixels(image_shape) -> 0..MaxLabel] }
    /\ global_threshold = Rat(1, 2)
    /\ pc = "get_per_object_threshold"
    /\ calls = { }
    /\ local_threshold = None
    /\ blk = << 0, 0 >>
    /\ lbl = 0
    /\ writes = << >>
    /\ history = << >>
    /\ returned = None
    /\ raised = None
    /\ random_state = CallerRandomState
    /\ NoLocals

\* lines 165-167: objects.segmented of None raises AttributeError
PerObjectEnter ==
    /\ pc = "get_per_object_threshold"
    /\ calls' = calls \cup { "get_per_object_threshold" }
    /\ IF objects = None
         THEN /\ raised' = Raise("AttributeError", << "NoneType", "segmented" >>)
              /\ pc' = "done"
              /\ UNCHANGED << local_threshold, lbl, writes >>
         ELSE /\ local_threshold' = [p \in 1..NPixels(image_shape) |-> One]
              /\ writes' = [p \in 1..NPixels(image_shape) |-> 0]
              /\ lbl' = 1
              /\ pc' = "per_object_loop"
              /\ UNCHANGED raised
    /\ UNCHANGED << threshold_method, threshold_range, threshold_correction_factor,
                    manual_threshold, object_fraction, image_shape, image, mask,
                    objects, global_threshold, blk, history, returned >>
    /\ UNCHANGED << random_state, locals >>

\* lines 168-172: one iteration of the loop over the labels
PerObjectLabel ==
    /\ pc = "per_object_loop"
    /\ LET labels == objects.segmented
           label_extents == find_objects(labels, image_shape, MaxOf(labels))
       IN  /\ lbl <= Len(label_extents)
           /\ LET extent == label_extents[lbl]
                  sel == label_mask(mask, labels, extent, image_shape, lbl)
                  values == View(image, extent, image_shape)
                  target == Assigned(extent, image_shape, sel)
              IN  \E o \in get_global_threshold(values, sel) :
                     IF o.kind = "raise"
                       THEN /\ raised' = o
                            /\ pc' = "done"
                            /\ UNCHANGED << local_threshold, writes, history, lbl >>
                       ELSE /\ local_threshold' =
                                 [p \in DOMAIN local_threshold |->
                                     IF p \in target THEN o.v ELSE local_threshold[p]]
                            /\ writes' = [p \in DOMAIN writes |->
                                             IF p \in target THEN writes[p] + 1 ELSE writes[p]]
                            /\ history' = Append(history, [threshold |-> o.v, written |-> target])
                            /\ lbl' = lbl + 1
                            /\ UNCHANGED << raised, pc >>
    /\ calls' = calls \cup { "get_global_threshold" }
    /\ UNCHANGED << threshold_method, threshold_range, threshold_correction_factor,
                    manual_threshold, object_fraction, image_shape, image, mask,
                    objects, global_threshold, blk, returned >>
    /\ random_state' =
          LET labels == objects.segmented
              extent == find_objects(labels, image_shape, MaxOf(labels))[lbl]
          IN  random_state_after(Crop(View(image, extent, image_shape),
                                      label_mask(mask, labels, extent, image_shape, lbl)))
    /\ UNCHANGED locals

\* line 173
PerObjectReturn ==
    /\ pc = "per_object_loop"
    /\ lbl > MaxOf(objects.segmented)
    /\ returned' = Value(local_threshold)
    /\ pc' = "done"
    /\ UNCHANGED << threshold_method, threshold_range, threshold_correction_factor,
                    manual_threshold, object_fraction, image_shape, image, mask,
                    objects, calls, global_threshold, local_threshold, blk, lbl,
                    writes, history, raised >>
    /\ UNCHANGED << random_state, locals >>

NextPerObject == PerObjectEnter \/ PerObjectLabel \/ PerObjectReturn

SpecPerObject == InitPerObject /\ [][NextPerObject]_vars

(***************************************************************************)
(* Claims about the per-object thresholder (under SpecPerObject)           *)
(***************************************************************************)
PerObjectDone == pc = "done" /\ objects # None

\* the pixels of label i that the mask keeps, as a mask over the whole image
LabelPixels(i) == [p \in DOMAIN image |-> mask[p] /\ objects.segmented[p] = i]

\* C9: in the returned grid every pixel of label 0 is exactly 1.0, and every
\* mask-true pixel of a label i >= 1 holds the value get_global_threshold
\* computed for label i, which is a value it returns on the image's pixels
\* selected by (mask AND labels == i).
C9_PerObjectGrid ==
    PerObjectDone =>
        /\ returned.kind = "value"
        /\ DOMAIN returned.v = DOMAIN image
        /\ \A p \in DOMAIN image :
              LET i == objects.segmented[p]
              IN  /\ i = 0 => returned.v[p] = One
                  /\ (i >= 1 /\ mask[p]) =>
                        /\ returned.v[p] = history[i].threshold
                        /\ Value(returned.v[p]) \in get_global_threshold(image, LabelPixels(i))

\* two labels with overlapping bounding boxes, both thresholded by their own pixels
C9_Witness ==
    /\ PerObjectDone
    /\ TheAlgorithm = TM_BACKGROUND
    /\ image_shape = << 2, 2 >>
    /\ objects.segmented = << 1, 2, 0, 1 >>
    /\ image = << Rat(0, 1), Rat(3, 10), Rat(3, 5), Rat(0, 1) >>
    /\ mask = << TRUE, TRUE, TRUE, TRUE >>
    /\ returned = Value(<< Zero, Rat(3, 10), One, Zero >>)

EmptyLabels ==
    { i \in 1..MaxOf(objects.segmented) : \A p \in DOMAIN image : ~LabelPixels(i)[p] }

\* C10: a label without any mask-true pixel of its own does not make
\* get_per_object_threshold fail: its iteration assigns no pixel, its pixels
\* keep the default 1.0, and every label up to the largest is still processed,
\* the mask-true pixels of the other labels receiving their thresholds.
C10_EmptyLabelKeepsDefault ==
    (PerObjectDone /\ EmptyLabels # { }) =>
        /\ raised = None
        /\ returned.kind = "value"
        /\ Len(history) = MaxOf(objects.segmented)
        /\ \A i \in EmptyLabels :
              /\ history[i].written = { }
              /\ \A p \in DOMAIN image :
                    objects.segmented[p] = i => returned.v[p] = One /\ writes[p] = 0
        /\ \A p \in DOMAIN image :
              (objects.segmented[p] >= 1 /\ mask[p]) =>
                  /\ writes[p] = 1
                  /\ p \in history[objects.segmented[p]].written

\* label 1 is masked out entirely, label 2 is thresholded after it
C10_Witness ==
    /\ PerObjectDone
    /\ TheAlgorithm = TM_BACKGROUND
    /\ image_shape = << 1, 3 >>
    /\ objects.segmented = << 1, 2, 1 >>
    /\ mask = << FALSE, TRUE, FALSE >>
    /\ image = << Rat(3, 10), Rat(3, 10), Rat(3, 10) >>
    /\ returned = Value(<< One, Rat(3, 10), One >>)
    /\ history = << [threshold |-> Zero, written |-> { }],
                    [threshold |-> Rat(3, 10), written |-> { 2 }] >>

(***************************************************************************)
(* Adaptive block thresholder: get_adaptive_threshold(image, mask,         *)
(* threshold).  The pixels of the image are not modelled here: a block's   *)
(* get_global_threshold ranges over every value the library can return.    *)
(***************************************************************************)
min_block_size == 50
blocks_per_axis == 10

LibraryValues == OpaqueThresholds \cup { Zero, One, NaN }

\* lines 120-121
min_threshold(threshold) == py_max(Mul(Rat(7, 10), threshold), Zero)
max_threshold(threshold) == py_min(Mul(Rat(3, 2), threshold), One)

\* lines 126-128, one axis: integer division of the integer arrays
nblocks(size) ==
    LET tenth == size \div blocks_per_axis
        block_size == IF tenth < min_block_size THEN min_block_size ELSE tenth
    IN  size \div block_size

\* int(i * increment) with increment = float(size) / float(nblocks); the
\* truncated float product is the exact floor of i * size / nblocks
BlockBound(i, size) == (i * size) \div nblocks(size)

\* lines 152-153
ClampBlock(block_threshold, threshold) ==
    py_min(py_max(block_threshold, min_threshold(threshold)), max_threshold(threshold))

\* whether the flat position p lies in thresh_out[i0:i1, j0:j1]
InBlock(p, i0, i1, j0, j1, shape) ==
    /\ i0 <= RowOf(p, shape)
    /\ RowOf(p, shape) < i1
    /\ j0 <= ColOf(p, shape)
    /\ ColOf(p, shape) < j1

\* shapes with no block on an axis (a side under 50), one block and two blocks
AdaptiveShapes == { << 30, 30 >>, << 30, 50 >>, << 50, 30 >>, << 50, 50 >>,
                    << 101, 30 >>, << 101, 50 >>, << 50, 101 >> }

InitAdaptive ==
    /\ threshold_method \in { Join(TM_OTSU, TM_ADAPTIVE), Join(TM_BACKGROUND, TM_ADAPTIVE) }
    /\ threshold_range = [min |-> Zero, max |-> One]
    /\ threshold_correction_factor = One
    /\ manual_threshold = Zero
    /\ object_fraction = Rat(1, 2)
    /\ image_shape \in AdaptiveShapes
    /\ image = << >>
    /\ mask = << >>
    /\ objects = None
    /\ global_threshold \in { Zero, Rat(1, 2), Rat(3, 2) }
    /\ pc = "get_adaptive_threshold"
    /\ calls = { }
    /\ local_threshold = None
    /\ blk = << 0, 0 >>
    /\ lbl = 0
    /\ writes = << >>
    /\ history = << >>
    /\ returned = None
    /\ raised = None
    /\ random_state = CallerRandomState
    /\ NoLocals

\* lines 119-138
AdaptiveEnter ==
    /\ pc = "get_adaptive_threshold"
    /\ calls' = calls \cup { "get_adaptive_threshold" }
    /\ local_threshold' = [p \in 1..NPixels(image_shape) |-> Zero]
    /\ writes' = [p \in 1..NPixels(image_shape) |-> 0]
    /\ blk' = << 0, 0 >>
    /\ pc' = "adaptive_loop"
    /\ UNCHANGED << threshold_method, threshold_range, threshold_correction_factor,
                    manual_threshold, object_fraction, image_shape, image, mask,
                    objects, global_threshold, lbl, history, returned, raised >>
    /\ UNCHANGED << random_state, locals >>

\* lines 143-154: one block
AdaptiveBlock ==
    /\ pc = "adaptive_loop"
    /\ blk[1] < nblocks(image_shape[1])
    /\ blk[2] < nblocks(image_shape[2])
    /\ LET i0 == BlockBound(blk[1], image_shape[1])
           i1 == BlockBound(blk[1] + 1, image_shape[1])
           j0 == BlockBound(blk[2], image_shape[2])
           j1 == BlockBound(blk[2] + 1, image_shape[2])
       IN  \E t \in LibraryValues :
              LET block_threshold == ClampBlock(t, global_threshold)
              IN  /\ local_threshold' =
                        [p \in 1..NPixels(image_shape) |->
                            IF InBlock(p, i0, i1, j0, j1, image_shape)
                              THEN block_threshold ELSE local_threshold[p]]
                  /\ writes' =
                        [p \in 1..NPixels(image_shape) |->
                            IF InBlock(p, i0, i1, j0, j1, image_shape)
                              THEN writes[p] + 1 ELSE writes[p]]
                  /\ history' = Append(history, [threshold |-> block_threshold,
                                                 block |-> blk])
    /\ blk' = IF blk[2] + 1 < nblocks(image_shape[2])
                THEN << blk[1], blk[2] + 1 >> ELSE << blk[1] + 1, 0 >>
    /\ calls' = calls \cup { "get_global_threshold" }
    /\ UNCHANGED << threshold_method, threshold_range, threshold_correction_factor,
                    manual_threshold, object_fraction, image_shape, image, mask,
                    objects, global_threshold, lbl, pc, returned, raised >>
    /\ random_state' \in
          IF /\ get_threshold_algorithm(threshold_method) = TM_MOG
             /\   (BlockBound(blk[1] + 1, image_shape[1]) - BlockBound(blk[1], image_shape[1]))
                 * (BlockBound(blk[2] + 1, image_shape[2]) - BlockBound(blk[2], image_shape[2]))
                 > max_count
            THEN { random_state, Reseeded } ELSE { random_state }
    /\ UNCHANGED locals

\* line 155
AdaptiveReturn ==
    /\ pc = "adaptive_loop"
    /\ blk[1] >= nblocks(image_shape[1]) \/ nblocks(image_shape[2]) = 0
    /\ returned' = Value(local_threshold)
    /\ pc' = "done"
    /\ UNCHANGED << threshold_method, threshold_range, threshold_correction_factor,
                    manual_threshold, object_fraction, image_shape, image, mask,
                    objects, calls, global_threshold, local_threshold, blk, lbl,
                    writes, history, raised >>
    /\ UNCHANGED << random_state, locals >>

NextAdaptive == AdaptiveEnter \/ AdaptiveBlock \/ AdaptiveReturn

SpecAdaptive == InitAdaptive /\ [][NextAdaptive]_vars

(***************************************************************************)
(* Claims about the adaptive thresholder (under SpecAdaptive)              *)
(***************************************************************************)
AdaptiveDone == pc = "done" /\ returned.kind = "value"

\* C7: every pixel of the grid returned by get_adaptive_threshold holds a value
\* within [0.7 * global, min(1.5 * global, 1)], for every image shape and every
\* global threshold.
C7_AdaptiveWithinBand ==
    AdaptiveDone =>
        \A p \in DOMAIN returned.v :
            /\ Le(Rat(7 * global_threshold.n, 10 * global_threshold.d), returned.v[p])
            /\ Le(returned.v[p], Rat(3 * global_threshold.n, 2 * global_threshold.d))
            /\ Le(returned.v[p], One)

\* C8: get_adaptive_threshold returns a grid of the image's shape in which
\* every pixel was written by exactly one block.
C8_BlocksPartitionImage ==
    AdaptiveDone =>
        /\ Len(returned.v) = image_shape[1] * image_shape[2]
        /\ \A p \in DOMAIN returned.v : writes[p] = 1

(***************************************************************************)
(* Threshold engine: get_threshold(image, mask, objects).  The pixels are  *)
(* not modelled here: a call of the library, of the adaptive or of the     *)
(* per-object thresholder returns any value, or grid of values, that the   *)
(* callee can produce, and raises what the callee raises.                  *)
(***************************************************************************)
GridPixels == 2

Scalar(v) == [ndarray |-> FALSE, v |-> v]
Array(g) == [ndarray |-> TRUE, v |-> g]

\* numpy.random after get_global_threshold ran on some image and mask: MoG
\* reseeds it when it subsamples (lines 209-211)
AnyRandomState ==
    IF get_threshold_algorithm(threshold_method) = TM_MOG
      THEN { random_state, Reseeded } ELSE { random_state }

\* what get_global_threshold does on some image and mask (lines 91-108)
AnyGlobalThreshold ==
    IF get_threshold_algorithm(threshold_method) \in Algorithms
      THEN { Value(v) : v \in LibraryValues }
      ELSE { Raise("AttributeError", << "str", "value" >>) }

\* the grids get_adaptive_threshold can return: a pixel keeps the initial 0 or
\* holds the clamped threshold of its block
AnyAdaptiveThreshold(threshold) ==
    [1..GridPixels -> { Zero } \cup { ClampBlock(t, threshold) : t \in LibraryValues }]

\* the grids get_per_object_threshold can return: a pixel keeps the initial 1
\* or holds the threshold of its label
AnyPerObjectThreshold == [1..GridPixels -> LibraryValues]

\* variant: the grid is clamped from below only
ClampToRange_NoUpper(local) ==
    IF local.ndarray
      THEN Array([p \in DOMAIN local.v |->
                     IF Lt(local.v[p], threshold_range.min)
                       THEN threshold_range.min ELSE local.v[p]])
      ELSE Scalar(py_min(py_max(local.v, threshold_range.min), threshold_range.max))

\* lines 80-87
ClampToRange(local) ==
    IF local.ndarray
      THEN LET lower == [p \in DOMAIN local.v |->
                            IF Lt(local.v[p], threshold_range.min)
                              THEN threshold_range.min ELSE local.v[p]]
           IN  Array([p \in DOMAIN lower |->
                         IF Gt(lower[p], threshold_range.max)
                           THEN threshold_range.max ELSE lower[p]])
      ELSE Scalar(py_min(py_max(local.v, threshold_range.min), threshold_range.max))

\* line 88
Correct(local) ==
    IF local.ndarray
      THEN Array([p \in DOMAIN local.v |-> Mul(local.v[p], threshold_correction_factor)])
      ELSE Scalar(Mul(local.v, threshold_correction_factor))

Methods ==
    { TM_MANUAL }
        \cup { Join(a, m) : a \in Algorithms, m \in Modifiers }
        \cup { << "Otsu" >>, << "Foo" >>,
               << "Foo", " ", "Global" >>, << "Kapur", " ", "Foo" >>,
               << "Foo", " ", "Bar" >>, << "MoG", " ", " ", "Adaptive" >>,
               << "Set", " ", "interactively" >>, << "Binary", " ", "image" >> }

RangeBounds == { Zero, Rat(2, 5), One }
CorrectionFactors == { Rat(1, 2), Rat(2, 1) }
ManualValues == { Rat(37, 100), Rat(3, 2) }

Init ==
    /\ threshold_method \in Methods
    /\ threshold_range \in
          { r \in [min : RangeBounds, max : RangeBounds] : ~Lt(r.max, r.min) }
    /\ threshold_correction_factor \in CorrectionFactors
    /\ manual_threshold \in ManualValues
    /\ object_fraction = Rat(1, 2)
    /\ image_shape = << 1, GridPixels >>
    /\ image = << >>
    /\ mask = << >>
    /\ objects \in { None, Objects(<< >>) }
    /\ pc = "get_threshold"
    /\ Idle

\* variant: the manual value goes through the correction factor
ReturnManual_Corrected ==
    /\ pc = "get_threshold"
    /\ threshold_method = TM_MANUAL
    /\ returned' = Value(<< Scalar(Mul(manual_threshold, threshold_correction_factor)),
                            manual_threshold >>)
    /\ pc' = "done"
    /\ UNCHANGED << threshold_method, threshold_range, threshold_correction_factor,
                    manual_threshold, object_fraction, image_shape, image, mask,
                    objects, calls, global_threshold, local_threshold, blk, lbl,
                    writes, history, raised >>
    /\ UNCHANGED << random_state, locals >>

\* lines 69-70
ReturnManual ==
    /\ pc = "get_threshold"
    /\ threshold_method = TM_MANUAL
    /\ returned' = Value(<< Scalar(manual_threshold), manual_threshold >>)
    /\ pc' = "done"
    /\ UNCHANGED << threshold_method, threshold_range, threshold_correction_factor,
                    manual_threshold, object_fraction, image_shape, image, mask,
                    objects, calls, global_threshold, local_threshold, blk, lbl,
                    writes, history, raised >>
    /\ UNCHANGED << random_state, locals >>

\* line 71
CallGlobal ==
    /\ pc = "get_threshold"
    /\ threshold_method # TM_MANUAL
    /\ calls' = calls \cup { "get_global_threshold" }
    /\ \E o \in AnyGlobalThreshold :
          IF o.kind = "raise"
            THEN raised' = o /\ pc' = "done" /\ UNCHANGED global_threshold
            ELSE global_threshold' = o.v /\ pc' = "modifier" /\ UNCHANGED raised
    /\ UNCHANGED << threshold_method, threshold_range, threshold_correction_factor,
                    manual_threshold, object_fraction, image_shape, image, mask,
                    objects, local_threshold, blk, lbl, writes, history, returned >>
    /\ random_state' \in AnyRandomState
    /\ UNCHANGED locals

Modifier == get_threshold_modifier(threshold_method)

\* line 72: reading self.threshold_modifier of a string without a " "
ModifierMissing ==
    /\ pc = "modifier"
    /\ Modifier.kind = "raise"
    /\ raised' = Modifier
    /\ pc' = "done"
    /\ UNCHANGED << threshold_method, threshold_range, threshold_correction_factor,
                    manual_threshold, object_fraction, image_shape, image, mask,
                    objects, calls, global_threshold, local_threshold, blk, lbl,
                    writes, history, returned >>
    /\ UNCHANGED << random_state, locals >>

\* lines 72-73
ModifierGlobal ==
    /\ pc = "modifier"
    /\ Modifier.kind = "value" /\ Modifier.s = TM_GLOBAL
    /\ local_threshold' = Scalar(global_threshold)
    /\ pc' = "clamp"
    /\ UNCHANGED << threshold_method, threshold_range, threshold_correction_factor,
                    manual_threshold, object_fraction, image_shape, image, mask,
                    objects, calls, global_threshold, blk, lbl, writes, history,
                    returned, raised >>
    /\ UNCHANGED << random_state, locals >>

\* lines 74-75
ModifierAdaptive ==
    /\ pc = "modifier"
    /\ Modifier.kind = "value" /\ Modifier.s = TM_ADAPTIVE
    /\ calls' = calls \cup { "get_adaptive_threshold" }
    /\ \E g \in AnyAdaptiveThreshold(global_threshold) : local_threshold' = Array(g)
    /\ pc' = "clamp"
    /\ UNCHANGED << threshold_method, threshold_range, threshold_correction_factor,
                    manual_threshold, object_fraction, image_shape, image, mask,
                    objects, global_threshold, blk, lbl, writes, history,
                    returned, raised >>
    /\ random_state' \in AnyRandomState
    /\ UNCHANGED locals

\* lines 76-77; get_per_object_threshold starts by reading objects.segmented
ModifierPerObject ==
    /\ pc = "modifier"
    /\ Modifier.kind = "value" /\ Modifier.s = TM_PER_OBJECT
    /\ calls' = calls \cup { "get_per_object_threshold" }
    /\ IF objects = None
         THEN /\ raised' = Raise("AttributeError", << "NoneType", "segmented" >>)
              /\ pc' = "done"
              /\ UNCHANGED local_threshold
         ELSE /\ \E g \in AnyPerObjectThreshold : local_threshold' = Array(g)
              /\ pc' = "clamp"
              /\ UNCHANGED raised
    /\ UNCHANGED << threshold_method, threshold_range, threshold_correction_factor,
                    manual_threshold, object_fraction, image_shape, image, mask,
                    objects, global_threshold, blk, lbl, writes, history, returned >>
    /\ random_state' \in AnyRandomState
    /\ UNCHANGED locals

\* lines 78-79
ModifierUnsupported ==
    /\ pc = "modifier"
    /\ Modifier.kind = "value" /\ Modifier.s \notin Modifiers
    /\ raised' = Raise("NotImplementedError", Modifier.s)
    /\ pc' = "done"
    /\ UNCHANGED << threshold_method, threshold_range, threshold_correction_factor,
                    manual_threshold, object_fraction, image_shape, image, mask,
                    objects, calls, global_threshold, local_threshold, blk, lbl,
                    writes, history, returned >>
    /\ UNCHANGED << random_state, locals >>

\* lines 80-89; history keeps the local threshold as the modifier produced it
ClampCorrectReturn ==
    /\ pc = "clamp"
    /\ local_threshold' = Correct(ClampToRange(local_threshold))
    /\ returned' = Value(<< local_threshold', global_threshold >>)
    /\ history' = << local_threshold >>
    /\ pc' = "done"
    /\ UNCHANGED << threshold_method, threshold_range, threshold_correction_factor,
                    manual_threshold, object_fraction, image_shape, image, mask,
                    objects, calls, global_threshold, blk, lbl, writes, raised >>
    /\ UNCHANGED << random_state, locals >>

Next ==
    \/ ReturnManual
    \/ CallGlobal
    \/ ModifierMissing
    \/ ModifierGlobal
    \/ ModifierAdaptive
    \/ ModifierPerObject
    \/ ModifierUnsupported
    \/ ClampCorrectReturn

Spec == Init /\ [][Next]_vars

(***************************************************************************)
(* Claims about the threshold engine (under Spec)                          *)
(***************************************************************************)
\* clamp(x, lo, hi) over the reals; a NaN stays a NaN
Clamp(x, lo, hi) ==
    IF IsNaN(x) THEN x ELSE IF Lt(x, lo) THEN lo ELSE IF Gt(x, hi) THEN hi ELSE x

ClampThenCorrect(x) ==
    Mul(Clamp(x, threshold_range.min, threshold_range.max), threshold_correction_factor)

EngineReturned == pc = "done" /\ returned.kind = "value"

\* C1: for every non-Manual configuration the first value get_threshold
\* returns is clamp(local, range.min, range.max) * correction_factor, element
\* by element when local is a grid, local being the threshold the modifier
\* produced; the second value is the global threshold.
C1_ClampThenCorrect ==
    (EngineReturned /\ threshold_method # TM_MANUAL) =>
        LET local == history[1]
            first == returned.v[1]
        IN  /\ first.ndarray = local.ndarray
            /\ IF local.ndarray
                 THEN /\ DOMAIN first.v = DOMAIN local.v
                      /\ \A p \in DOMAIN local.v : first.v[p] = ClampThenCorrect(local.v[p])
                 ELSE first.v = ClampThenCorrect(local.v)
            /\ returned.v[2] = global_threshold

\* a grid whose pixels are clamped from below and from above and then doubled,
\* so that they leave the range [0, 2/5]
C1_Witness ==
    /\ EngineReturned
    /\ threshold_method = Join(TM_KAPUR, TM_PER_OBJECT)
    /\ threshold_range = [min |-> Rat(2, 5), max |-> Rat(2, 5)]
    /\ threshold_correction_factor = Rat(2, 1)
    /\ history = << Array(<< Rat(1, 5), One >>) >>
    /\ returned = Value(<< Array(<< Rat(4, 5), Rat(4, 5) >>), Rat(1, 2) >>)

\* C2: with the Manual method get_threshold returns (manual_value,
\* manual_value) and computes nothing else: no library, adaptive or per-object
\* call is made and neither the range clamp nor the correction factor is applied.
C2_ManualShortCircuit ==
    threshold_method = TM_MANUAL =>
        /\ calls = { }
        /\ history = << >>
        /\ raised = None
        /\ pc \in { "get_threshold", "done" }
        /\ pc = "done" => returned = Value(<< Scalar(manual_threshold), manual_threshold >>)

\* a manual value above the range, returned uncorrected
C2_Witness ==
    /\ pc = "done"
    /\ threshold_method = TM_MANUAL
    /\ manual_threshold = Rat(3, 2)
    /\ threshold_range.max = Rat(2, 5)
    /\ threshold_correction_factor = Rat(2, 1)
    /\ returned = Value(<< Scalar(Rat(3, 2)), Rat(3, 2) >>)

Unsupported ==
    /\ threshold_method # TM_MANUAL
    /\ \/ TheAlgorithm \notin Algorithms
       \/ Len(split(threshold_method)) < 2
       \/ split(threshold_method)[2] \notin Modifiers

\* C3: for every method string other than Manual whose algorithm part is not
\* one of the six algorithms or whose modifier part is not Global, Adaptive or
\* PerObject (or is missing), get_threshold fails with the unsupported-algorithm
\* error (NotImplementedError) whose message names the offending part, and
\* returns no threshold.
C3_UnsupportedMethodError ==
    (pc = "done" /\ Unsupported) =>
        /\ returned = None
        /\ raised.kind = "raise"
        /\ raised.type = "NotImplementedError"
        /\ raised.arg \in { split(threshold_method)[k] : k \in DOMAIN split(threshold_method) }

\* C4: with the PerObject modifier and no objects, get_threshold fails with the
\* dedicated missing-objects error and returns no threshold.
C4_MissingObjectsError ==
    (/\ pc = "done"
     /\ TheAlgorithm \in Algorithms
     /\ Modifier = [kind |-> "value", s |-> TM_PER_OBJECT]
     /\ objects = None) =>
        /\ returned = None
        /\ raised.kind = "raise"
        /\ raised.type \in { "MissingObjectsError", "MissingInputError" }

(***************************************************************************)
(* Arrays and their buffers.  To follow what a function does to the arrays *)
(* it was given, also on images larger than max_count, an array is held    *)
(* here as the sequence of its runs << [v, n], ... >>: n equal elements v, *)
(* in row-major order, the runs of image and mask having the same lengths. *)
(* An array object is its elements together with the buffer it lives in:   *)
(* its own, or the caller's image.                                         *)
(***************************************************************************)
MaxRuns == 2

Run(v, n) == [v |-> v, n |-> n]

\* numpy.product(a.shape)
RECURSIVE Size(_)
Size(a) == IF a = << >> THEN 0 ELSE a[1].n + Size(Tail(a))

Elements(a) == [k \in DOMAIN a |-> a[k].v]

Own(a) == [kind |-> "ndarray", base |-> "own", a |-> a]
Shared(base, a) == [kind |-> "ndarray", base |-> base, a |-> a]

\* variant: the selection is a window on the indexed array
BooleanIndex_View(a, keep) == Shared("image[mask]", Select(a, Elements(keep)))

\* a[keep] for a boolean array keep: advanced indexing builds a new array
BooleanIndex(a, keep) == Own(Select(a, Elements(keep)))

\* numpy.any(mask)
numpy_any_Always(msk) == TRUE

numpy_any(msk) == \E k \in DOMAIN msk : msk[k].v

\* numpy.max(a) of a non-empty array
numpy_max(a) == CHOOSE x \in Range(Elements(a)) : \A y \in Range(Elements(a)) : ~Lt(x, y)

\* a.sort()
RECURSIVE InsertRun(_, _)
InsertRun(x, a) ==
    IF a = << >> THEN << x >>
    ELSE IF Lt(a[1].v, x.v) THEN << a[1] >> \o InsertRun(x, Tail(a))
         ELSE << x >> \o a

RECURSIVE SortRuns(_)
SortRuns(a) == IF a = << >> THEN << >> ELSE InsertRun(a[1], SortRuns(Tail(a)))

\* a[a < minval] = minval
Clamped(a, minval) ==
    [k \in DOMAIN a |-> Run(IF Lt(a[k].v, minval) THEN minval ELSE a[k].v, a[k].n)]

\* the first n elements of a, and the others
RECURSIVE Take(_, _)
Take(a, n) ==
    IF n = 0 \/ a = << >> THEN << >>
    ELSE IF a[1].n <= n THEN << a[1] >> \o Take(Tail(a), n - a[1].n)
         ELSE << Run(a[1].v, n) >>

RECURSIVE Drop(_, _)
Drop(a, n) ==
    IF n = 0 \/ a = << >> THEN a
    ELSE IF a[1].n <= n THEN Drop(Tail(a), n - a[1].n)
         ELSE << Run(a[1].v, a[1].n - n) >> \o Tail(a)

\* img after img[msk] = b
RECURSIVE Scatter(_, _, _)
Scatter(img, msk, b) ==
    IF img = << >> THEN << >>
    ELSE IF msk[1].v
           THEN Take(b, img[1].n) \o Scatter(Tail(img), Tail(msk), Drop(b, img[1].n))
           ELSE << img[1] >> \o Scatter(Tail(img), Tail(msk), b)

\* the caller's image once the elements of the array object arr were
\* overwritten in place with b
ImageAfterWrite(arr, b) ==
    IF arr.base = "image[mask]" THEN Scatter(image, mask, b)
    ELSE IF arr.base = "image" THEN b
    ELSE image

RECURSIVE SumOver(_, _)
SumOver(f, S) ==
    IF S = { } THEN 0 ELSE LET k == CHOOSE x \in S : TRUE IN f[k] + SumOver(f, S \ { k })

\* cropped_image[numpy.random.permutation(pixel_count)[:max_count]]: some
\* max_count of the elements; which ones the generator picks is not computed
Subsamples(a) ==
    LET excess == Size(a) - max_count
        dropped == { d \in [DOMAIN a -> 0..excess] :
                       /\ \A k \in DOMAIN a : d[k] <= a[k].n
                       /\ SumOver(d, DOMAIN a) = excess }
    IN  { [k \in DOMAIN a |-> Run(a[k].v, a[k].n - d[k])] : d \in dropped }

(***************************************************************************)
(* One call of get_global_threshold, weighted_variance or sum_of_entropies *)
(* followed statement by statement through its working arrays              *)
(***************************************************************************)
InitFrame ==
    /\ pc \in { "get_global_threshold", "weighted_variance", "sum_of_entropies" }
    /\ threshold_method \in
          IF pc = "get_global_threshold"
            THEN { Join(a, TM_GLOBAL) : a \in Algorithms }
            ELSE { Join(TM_OTSU, TM_GLOBAL) }
    /\ threshold_range = [min |-> Zero, max |-> One]
    /\ threshold_correction_factor = One
    /\ manual_threshold = Zero
    /\ object_fraction = Rat(1, 2)
    /\ \E k \in 0..MaxRuns :
          \E lens \in [1..k -> { 1, 3, max_count }], vals \in [1..k -> Intensities],
             keep \in [1..k -> BOOLEAN] :
                /\ Cardinality({ j \in 1..k : lens[j] = max_count }) <= 1
                /\ image = [j \in 1..k |-> Run(vals[j], lens[j])]
                /\ mask = [j \in 1..k |-> Run(keep[j], lens[j])]
    /\ image_shape = << 1, Size(image) >>
    /\ objects = None
    /\ IF pc = "get_global_threshold" THEN threshold_arg = None
       ELSE \/ threshold_arg = Scalar(Rat(1, 2))
            \/ threshold_arg = Array([j \in DOMAIN image |-> Run(Rat(1, 2), image[j].n)])
    /\ cropped_image = None
    /\ clamped_image = None
    /\ im_normalized = << >>
    /\ pre_thresh = None
    /\ new_thresh = None
    /\ random_state = CallerRandomState
    /\ calls = { }
    /\ global_threshold = None
    /\ local_threshold = None
    /\ blk = << 0, 0 >>
    /\ lbl = 0
    /\ writes = << >>
    /\ history = << >>
    /\ returned = None
    /\ raised = None

\* lines 94, 195, 301, 325, 346, 376: cropped_image = image[mask]
CropImage ==
    /\ pc = "get_global_threshold"
    /\ cropped_image' = BooleanIndex(image, mask)
    /\ calls' = calls \cup { "get_global_threshold" }
    /\ pc' = "size_check"
    /\ UNCHANGED << threshold_method, threshold_range, threshold_correction_factor,
                    manual_threshold, object_fraction, image_shape, image, mask,
                    objects, global_threshold, local_threshold, blk, lbl, writes,
                    history, returned, raised, threshold_arg, clamped_image,
                    random_state, im_normalized, pre_thresh, new_thresh >>

\* lines 204-209, 302-305, 326-329, 347-350, 377-380: the early returns
SizeCheck ==
    /\ pc = "size_check"
    /\ LET a == cropped_image.a
           algorithm == get_threshold_algorithm(threshold_method)
           m == py_min(object_fraction,
                       Rat(object_fraction.d - object_fraction.n, object_fraction.d))
           small == CASE algorithm = TM_MOG -> Size(a) * m.n < min_pixels * m.d
                      [] algorithm \in { TM_OTSU, TM_BACKGROUND } -> Size(a) = 0
                      [] OTHER -> Size(a) < min_pixels
       IN  IF small
             THEN /\ returned' = Value(IF algorithm = TM_MOG THEN One ELSE Zero)
                  /\ pc' = "done"
             ELSE IF IsConstant(Elements(a))
               THEN /\ returned' = Value(a[1].v)
                    /\ pc' = "done"
               ELSE /\ pc' = CASE algorithm = TM_MOG ->
                                    IF Size(a) > max_count THEN "subsample" ELSE "sort"
                               [] algorithm = TM_ROBUST_BACKGROUND -> "sort"
                               [] algorithm = TM_RIDLER_CALVARD -> "clamp"
                               [] OTHER -> "estimate"
                    /\ UNCHANGED returned
    /\ UNCHANGED << threshold_method, threshold_range, threshold_correction_factor,
                    manual_threshold, object_fraction, image_shape, image, mask,
                    objects, calls, global_threshold, local_threshold, blk, lbl,
                    writes, history, raised, threshold_arg, cropped_image,
                    clamped_image, random_state, im_normalized, pre_thresh,
                    new_thresh >>

\* lines 210-212: numpy.random.seed(0), then the subsample, a new array
MogSubsample ==
    /\ pc = "subsample"
    /\ random_state' = Reseeded
    /\ \E b \in Subsamples(cropped_image.a) : cropped_image' = Own(b)
    /\ pc' = "sort"
    /\ UNCHANGED << threshold_method, threshold_range, threshold_correction_factor,
                    manual_threshold, object_fraction, image_shape, image, mask,
                    objects, calls, global_threshold, local_threshold, blk, lbl,
                    writes, history, returned, raised, threshold_arg,
                    clamped_image, im_normalized, pre_thresh, new_thresh >>

\* lines 222, 331: cropped_image.sort()
SortInPlace ==
    /\ pc = "sort"
    /\ LET b == SortRuns(cropped_image.a)
       IN  /\ cropped_image' = [cropped_image EXCEPT !.a = b]
           /\ image' = ImageAfterWrite(cropped_image, b)
    /\ pc' = "estimate"
    /\ UNCHANGED << threshold_method, threshold_range, threshold_correction_factor,
                    manual_threshold, object_fraction, image_shape, mask, objects,
                    calls, global_threshold, local_threshold, blk, lbl, writes,
                    history, returned, raised, threshold_arg, clamped_image,
                    random_state, im_normalized, pre_thresh, new_thresh >>

\* lines 354-355: cropped_image[cropped_image<min_val] = min_val
ClampInPlace ==
    /\ pc = "clamp"
    /\ LET max == numpy_max(cropped_image.a)
           min_val == Rat(max.n, max.d * 256)
           b == Clamped(cropped_image.a, min_val)
       IN  /\ cropped_image' = [cropped_image EXCEPT !.a = b]
           /\ image' = ImageAfterWrite(cropped_image, b)
    /\ pc' = "estimate"
    /\ UNCHANGED << threshold_method, threshold_range, threshold_correction_factor,
                    manual_threshold, object_fraction, image_shape, mask, objects,
                    calls, global_threshold, local_threshold, blk, lbl, writes,
                    history, returned, raised, threshold_arg, clamped_image,
                    random_state, im_normalized, pre_thresh, new_thresh >>

\* lines 223-294, 308-316, 332-336, 356-372, 381-412: the estimation, which
\* builds new arrays from cropped_image and returns a number
Estimate ==
    /\ pc = "estimate"
    /\ \E t \in OpaqueThresholds : returned' = Value(t)
    /\ pc' = "done"
    /\ UNCHANGED << threshold_method, threshold_range, threshold_correction_factor,
                    manual_threshold, object_fraction, image_shape, image, mask,
                    objects, calls, global_threshold, local_threshold, blk, lbl,
                    writes, history, raised, threshold_arg, cropped_image,
                    clamped_image, random_state, im_normalized, pre_thresh,
                    new_thresh >>

\* The entry of a criterion, lines 435-443 and 463-471: 0 on a mask without a
\* true element, 0 when the maximum is 0, and else the working array, which
\* is image[mask] in weighted_variance and image.copy() in sum_of_entropies.
\* numpy.max of an empty array raises ValueError.
CriterionEntry(function, working) ==
    /\ pc = function
    /\ IF ~numpy_any(mask)
         THEN /\ returned' = Value(Zero)
              /\ calls' = calls \cup { function }
              /\ pc' = "done"
              /\ UNCHANGED << raised, clamped_image >>
         ELSE /\ calls' = calls \cup { function, "numpy.max" }
              /\ IF BooleanIndex(image, mask).a = << >>
                   THEN /\ raised' = Raise("ValueError", << "numpy.max" >>)
                        /\ pc' = "done"
                        /\ UNCHANGED << returned, clamped_image >>
                   ELSE IF numpy_max(BooleanIndex(image, mask).a) = Zero
                     THEN /\ returned' = Value(Zero)
                          /\ pc' = "done"
                          /\ UNCHANGED << raised, clamped_image >>
                     ELSE /\ clamped_image' = working
                          /\ pc' = "clamp " \o function
                          /\ UNCHANGED << returned, raised >>
    /\ UNCHANGED << threshold_method, threshold_range, threshold_correction_factor,
                    manual_threshold, object_fraction, image_shape, image, mask,
                    objects, global_threshold, local_threshold, blk, lbl, writes,
                    history, threshold_arg, cropped_image, random_state,
                    im_normalized, pre_thresh, new_thresh >>

\* lines 444 and 472: clamped_image[clamped_image < minval] = minval
CriterionClamp(function) ==
    /\ pc = "clamp " \o function
    /\ LET max == numpy_max(BooleanIndex(image, mask).a)
           minval == Rat(max.n, max.d * 256)
           b == Clamped(clamped_image.a, minval)
       IN  /\ clamped_image' = [clamped_image EXCEPT !.a = b]
           /\ image' = ImageAfterWrite(clamped_image, b)
    /\ pc' = "estimate " \o function
    /\ UNCHANGED << threshold_method, threshold_range, threshold_correction_factor,
                    manual_threshold, object_fraction, image_shape, mask, objects,
                    calls, global_threshold, local_threshold, blk, lbl, writes,
                    history, returned, raised, threshold_arg, cropped_image,
                    random_state, im_normalized, pre_thresh, new_thresh >>

\* lines 446-457 and 476-515: the statistic, computed on new arrays
\* (threshold[mask], the logarithms, the histograms); in sum_of_entropies
\* the name image is rebound to the smoothed copy
CriterionEstimate(function) ==
    /\ pc = "estimate " \o function
    /\ \E t \in OpaqueThresholds \cup { Zero } : returned' = Value(t)
    /\ pc' = "done"
    /\ UNCHANGED << threshold_method, threshold_range, threshold_correction_factor,
                    manual_threshold, object_fraction, image_shape, image, mask,
                    objects, calls, global_threshold, local_threshold, blk, lbl,
                    writes, history, raised, threshold_arg, cropped_image,
                    clamped_image, random_state, im_normalized, pre_thresh,
                    new_thresh >>

weighted_variance_entry == CriterionEntry("weighted_variance", BooleanIndex(image, mask))
weighted_variance_clamp == CriterionClamp("weighted_variance")
weighted_variance_return == CriterionEstimate("weighted_variance")

sum_of_entropies_entry == CriterionEntry("sum_of_entropies", Own(image))
sum_of_entropies_clamp == CriterionClamp("sum_of_entropies")
sum_of_entropies_return == CriterionEstimate("sum_of_entropies")

NextFrame ==
    \/ CropImage
    \/ SizeCheck
    \/ MogSubsample
    \/ SortInPlace
    \/ ClampInPlace
    \/ Estimate
    \/ weighted_variance_entry
    \/ weighted_variance_clamp
    \/ weighted_variance_return
    \/ sum_of_entropies_entry
    \/ sum_of_entropies_clamp
    \/ sum_of_entropies_return

SpecFrame == InitFrame /\ [][NextFrame]_vars

(***************************************************************************)
(* Claims about side effects (under SpecFrame)                             *)
(***************************************************************************)
\* a step that leaves the arrays of the caller as they were
CallerArraysKept == image' = image /\ mask' = mask /\ objects' = objects

\* the arrays of the caller are never written: every in-place sort and clamp
\* hits an array of its own
CallerArraysNeverWritten == [][CallerArraysKept]_vars

\* C11: no statement of get_global_threshold (any algorithm), of
\* weighted_variance or of sum_of_entropies changes the image, the mask or the
\* label matrix of the caller, or any state that outlives the call, which
\* here is the process-wide random generator.
C11_NoSideEffect == [][CallerArraysKept /\ random_state' = random_state]_vars

\* C12: called with a mask that has no true element, weighted_variance and
\* sum_of_entropies return 0 for a scalar and for a grid threshold, without
\* raising, without taking the maximum of the pixels and without building
\* the clamped working array.
C12_EmptyMaskCriteria ==
    (/\ pc = "done"
     /\ calls \cap { "weighted_variance", "sum_of_entropies" } # { }
     /\ \A k \in DOMAIN mask : ~mask[k].v) =>
        /\ returned = Value(Zero)
        /\ raised = None
        /\ "numpy.max" \notin calls
        /\ clamped_image = None

C12_Witness ==
    /\ pc = "done"
    /\ "weighted_variance" \in calls
    /\ image = << Run(Rat(3, 5), 3), Run(Rat(3, 10), 1) >>
    /\ mask = << Run(FALSE, 3), Run(FALSE, 1) >>
    /\ threshold_arg.ndarray
    /\ returned = Value(Zero)

(***************************************************************************)
(* The loops of get_per_object_threshold and get_adaptive_threshold with   *)
(* their iterations run one at a time in any order: an iteration is the    *)
(* loop body for one label (lines 169-172) or one block (lines 144-154).   *)
(***************************************************************************)
Done(field) == { history[k][field] : k \in DOMAIN history }

InitAnyOrder ==
    \/ /\ InitPerObject
       /\ objects # None
       /\ get_threshold_algorithm(threshold_method) \in { TM_BACKGROUND, TM_ROBUST_BACKGROUND }
    \/ /\ InitAdaptive
       /\ get_threshold_algorithm(threshold_method) = TM_OTSU

\* lines 169-172 for label i
PerObjectTask(i) ==
    /\ pc = "per_object_loop"
    /\ LET labels == objects.segmented
           extent == find_objects(labels, image_shape, MaxOf(labels))[i]
           sel == label_mask(mask, labels, extent, image_shape, i)
           values == View(image, extent, image_shape)
           target == Assigned(extent, image_shape, sel)
       IN  /\ \E o \in get_global_threshold(values, sel) :
                 /\ o.kind = "value"
                 /\ local_threshold' =
                       [p \in DOMAIN local_threshold |->
                           IF p \in target THEN o.v ELSE local_threshold[p]]
                 /\ history' = Append(history, [label |-> i, threshold |-> o.v,
                                                written |-> target])
           /\ writes' = [p \in DOMAIN writes |->
                            IF p \in target THEN writes[p] + 1 ELSE writes[p]]
           /\ random_state' = random_state_after(Crop(values, sel))
    /\ lbl' = i
    /\ calls' = calls \cup { "get_global_threshold" }
    /\ UNCHANGED << threshold_method, threshold_range, threshold_correction_factor,
                    manual_threshold, object_fraction, image_shape, image, mask,
                    objects, global_threshold, blk, pc, returned, raised, locals >>

PerObjectAnyLabel ==
    /\ pc = "per_object_loop"
    /\ \E i \in 1..MaxOf(objects.segmented) : i \notin Done("label") /\ PerObjectTask(i)

\* line 173, once every label had its iteration
PerObjectAllDone ==
    /\ pc = "per_object_loop"
    /\ Done("label") = 1..MaxOf(objects.segmented)
    /\ returned' = Value(local_threshold)
    /\ pc' = "done"
    /\ UNCHANGED << threshold_method, threshold_range, threshold_correction_factor,
                    manual_threshold, object_fraction, image_shape, image, mask,
                    objects, calls, global_threshold, local_threshold, blk, lbl,
                    writes, history, raised, random_state, locals >>

\* grid after thresh_out[i0:i1, j0:j1] = value for block b = << i, j >>
BlockAssigned(grid, b, value) ==
    LET i0 == BlockBound(b[1], image_shape[1])
        i1 == BlockBound(b[1] + 1, image_shape[1])
        j0 == BlockBound(b[2], image_shape[2])
        j1 == BlockBound(b[2] + 1, image_shape[2])
    IN  [p \in 1..NPixels(image_shape) |->
            IF InBlock(p, i0, i1, j0, j1, image_shape) THEN value[p] ELSE grid[p]]

\* lines 144-154 for block b
AdaptiveTask(b) ==
    /\ pc = "adaptive_loop"
    /\ \E t \in LibraryValues :
          LET block_threshold == ClampBlock(t, global_threshold)
          IN  /\ local_threshold' =
                    BlockAssigned(local_threshold, b,
                                  [p \in 1..NPixels(image_shape) |-> block_threshold])
              /\ history' = Append(history, [threshold |-> block_threshold, block |-> b])
    /\ writes' = BlockAssigned(writes, b, [p \in 1..NPixels(image_shape) |-> writes[p] + 1])
    /\ blk' = b
    /\ calls' = calls \cup { "get_global_threshold" }
    /\ UNCHANGED << threshold_method, threshold_range, threshold_correction_factor,
                    manual_threshold, object_fraction, image_shape, image, mask,
                    objects, global_threshold, lbl, pc, returned, raised,
                    random_state, locals >>

Blocks ==
    { << i, j >> : i \in 0..(nblocks(image_shape[1]) - 1),
                   j \in 0..(nblocks(image_shape[2]) - 1) }

AdaptiveAnyBlock ==
    /\ pc = "adaptive_loop"
    /\ \E b \in Blocks : b \notin Done("block") /\ AdaptiveTask(b)

\* line 155, once every block had its iteration
AdaptiveAllDone ==
    /\ pc = "adaptive_loop"
    /\ Done("block") = Blocks
    /\ returned' = Value(local_threshold)
    /\ pc' = "done"
    /\ UNCHANGED << threshold_method, threshold_range, threshold_correction_factor,
                    manual_threshold, object_fraction, image_shape, image, mask,
                    objects, calls, global_threshold, local_threshold, blk, lbl,
                    writes, history, raised, random_state, locals >>

NextAnyOrder ==
    \/ PerObjectEnter
    \/ PerObjectAnyLabel
    \/ PerObjectAllDone
    \/ AdaptiveEnter
    \/ AdaptiveAnyBlock
    \/ AdaptiveAllDone

SpecAnyOrder == InitAnyOrder /\ [][NextAnyOrder]_vars

(***************************************************************************)
(* Claims about the order of the iterations (under SpecAnyOrder)           *)
(***************************************************************************)
\* the threshold that the iteration of a label, or of a block, computed
ComputedFor(field, x) ==
    (CHOOSE h \in { history[k] : k \in DOMAIN history } : h[field] = x).threshold

\* the grid the loop of lines 168-172 builds from label i on, in the order
\* of the labels, when the iteration of a label computes ComputedFor of it
RECURSIVE PerObjectSequential(_, _)
PerObjectSequential(grid, i) ==
    IF i > MaxOf(objects.segmented) THEN grid
    ELSE LET labels == objects.segmented
             extent == find_objects(labels, image_shape, MaxOf(labels))[i]
             sel == label_mask(mask, labels, extent, image_shape, i)
             target == Assigned(extent, image_shape, sel)
         IN  PerObjectSequential(
                 [p \in DOMAIN grid |-> IF p \in target THEN ComputedFor("label", i)
                                        ELSE grid[p]], i + 1)

\* the same for the loop of lines 143-154, rows first and columns within
RECURSIVE AdaptiveSequential(_, _)
AdaptiveSequential(grid, b) ==
    IF b \notin Blocks THEN grid
    ELSE LET value == ComputedFor("block", b)
         IN  AdaptiveSequential(
                 BlockAssigned(grid, b, [p \in 1..NPixels(image_shape) |-> value]),
                 IF b[2] + 1 < nblocks(image_shape[2])
                   THEN << b[1], b[2] + 1 >> ELSE << b[1] + 1, 0 >>)

Add(a, b) == IF IsNaN(a) \/ IsNaN(b) THEN NaN ELSE Rat(a.n * b.d + b.n * a.d, a.d * b.d)

Sub(a, b) == IF IsNaN(a) \/ IsNaN(b) THEN NaN ELSE Rat(a.n * b.d - b.n * a.d, a.d * b.d)

\* 1 / delta for delta = 0.00001
delta_inverse == 100000

\* variant: the loop without its convergence test
ExceedsDelta_Always(pre, new) == TRUE

\* line 367: abs(pre_thresh - new_thresh) > delta, false for a NaN
ExceedsDelta(pre, new) ==
    LET diff == Sub(pre, new)
    IN  /\ ~IsNaN(diff)
        /\ diff.n # 0
        /\ diff.d \div Abs(diff.n) < delta_inverse

RECURSIVE Below(_, _)
Below(a, t) ==
    IF a = << >> THEN << >>
    ELSE IF Lt(a[1], t) THEN << a[1] >> \o Below(Tail(a), t) ELSE Below(Tail(a), t)

RECURSIVE AtOrAbove(_, _)
AtOrAbove(a, t) ==
    IF a = << >> THEN << >>
    ELSE IF ~IsNaN(t) /\ ~Lt(a[1], t) THEN << a[1] >> \o AtOrAbove(Tail(a), t)
         ELSE AtOrAbove(Tail(a), t)

\* the sum and numpy.mean of the elements; a value computed once is held by
\* a bound variable
RECURSIVE Total(_)
Total(s) ==
    IF s = << >> THEN Zero
    ELSE CHOOSE r \in { Add(s[1], t) : t \in { Total(Tail(s)) } } : TRUE

numpy_mean(s) ==
    IF s = << >> THEN NaN
    ELSE CHOOSE r \in { Rat(t.n, t.d * Len(s)) : t \in { Total(s) } } : TRUE

\* variant: the new threshold is the mean of the values at or above the old
\* one, mirrored in the middle of the range
ridler_calvard_step_Mirrored(a, pre) ==
    CHOOSE r \in { Sub(One, mean2) : mean2 \in { numpy_mean(AtOrAbove(a, pre)) } } : TRUE

\* lines 369-371: numpy.mean([mean1, mean2])
ridler_calvard_step(a, pre) ==
    CHOOSE r \in { IF IsNaN(sum) THEN NaN ELSE Rat(sum.n, 2 * sum.d) :
                   sum \in { Add(mean1, mean2) :
                             mean1 \in { numpy_mean(Below(a, pre)) },
                             mean2 \in { numpy_mean(AtOrAbove(a, pre)) } } } : TRUE

\* the strictly increasing sequences of m levels out of 0, 1/4, 1/2, 3/4, 1,
\* all above the level lo
RECURSIVE Chains(_, _)
Chains(m, lo) ==
    IF m = 0 THEN { << >> }
    ELSE UNION { { << l >> \o c : c \in Chains(m - 1, l) } :
                 l \in { x \in { Rat(1, 4), Rat(1, 2), Rat(3, 4), One } : Lt(lo, x) } }

\* lines 356-359: the normalised logarithms that a clamped sample can have;
\* equal values have equal logarithms and a larger value a larger one, the
\* minimum is sent to 0 and the maximum to 1
Normalized(clamped) ==
    LET m == Cardinality(Range(clamped))
    IN  { [k \in DOMAIN clamped |->
              L[1 + Cardinality({ y \in Range(clamped) : Lt(y, clamped[k]) })]] :
          L \in { << Zero >> \o c : c \in { x \in Chains(m - 1, Zero) : x[m - 1] = One } } }

\* samples in non-decreasing order: the iteration depends on the values of
\* the sample only, not on their places
InitRidlerCalvard ==
    /\ threshold_method = Join(TM_RIDLER_CALVARD, TM_GLOBAL)
    /\ threshold_range = [min |-> Zero, max |-> One]
    /\ threshold_correction_factor = One
    /\ manual_threshold = Zero
    /\ object_fraction = Rat(1, 2)
    /\ \E n \in 2..MaxSample :
          /\ image_shape = << 1, n >>
          /\ image \in { a \in [1..n -> Intensities \cup { One }] :
                           \A k \in 1..(n - 1) : ~Lt(a[k + 1], a[k]) }
          /\ mask = [k \in 1..n |-> TRUE]
    /\ objects = None
    /\ pc = "get_ridler_calvard_threshold"
    /\ Idle

\* lines 346-355: the early returns, and the clamp of the dynamic range
RidlerCalvardEnter ==
    /\ pc = "get_ridler_calvard_threshold"
    /\ calls' = calls \cup { "get_ridler_calvard_threshold" }
    /\ LET sample == Crop(image, mask)
           max == CHOOSE x \in Range(sample) : \A y \in Range(sample) : ~Lt(x, y)
           min_val == Rat(max.n, max.d * 256)
       IN  IF Len(sample) < min_pixels \/ IsConstant(sample)
             THEN /\ returned' = Value(IF Len(sample) < min_pixels THEN Zero ELSE sample[1])
                  /\ pc' = "done"
                  /\ UNCHANGED cropped_image
             ELSE /\ cropped_image' =
                        Own([k \in DOMAIN sample |->
                                IF Lt(sample[k], min_val) THEN min_val ELSE sample[k]])
                  /\ pc' = "normalize"
                  /\ UNCHANGED returned
    /\ UNCHANGED << threshold_method, threshold_range, threshold_correction_factor,
                    manual_threshold, object_fraction, image_shape, image, mask,
                    objects, global_threshold, local_threshold, blk, lbl, writes,
                    history, raised, threshold_arg, clamped_image, random_state,
                    im_normalized, pre_thresh, new_thresh >>

\* lines 356-366: the normalised logarithm, and the threshold of Otsu to
\* start from, which history keeps
RidlerCalvardNormalize ==
    /\ pc = "normalize"
    /\ im_normalized' \in Normalized(cropped_image.a)
    /\ pre_thresh' = Zero
    /\ new_thresh' \in otsu(im_normalized', Zero, One)
    /\ history' = << new_thresh' >>
    /\ pc' = "while"
    /\ UNCHANGED << threshold_method, threshold_range, threshold_correction_factor,
                    manual_threshold, object_fraction, image_shape, image, mask,
                    objects, calls, global_threshold, local_threshold, blk, lbl,
                    writes, returned, raised, threshold_arg, cropped_image,
                    clamped_image, random_state >>

\* lines 367-371: one pass of the loop
RidlerCalvardIterate ==
    /\ pc = "while"
    /\ ExceedsDelta(pre_thresh, new_thresh)
    /\ pre_thresh' = new_thresh
    /\ new_thresh' = ridler_calvard_step(im_normalized, new_thresh)
    /\ UNCHANGED << threshold_method, threshold_range, threshold_correction_factor,
                    manual_threshold, object_fraction, image_shape, image, mask,
                    objects, pc, calls, global_threshold, local_threshold, blk, lbl,
                    writes, history, returned, raised, threshold_arg,
                    cropped_image, clamped_image, random_state, im_normalized >>

\* lines 367 and 372: the loop ends and the threshold is mapped back by exp
RidlerCalvardReturn ==
    /\ pc = "while"
    /\ ~ExceedsDelta(pre_thresh, new_thresh)
    /\ \E t \in IF IsNaN(new_thresh) THEN { NaN } ELSE OpaqueThresholds :
          returned' = Value(t)
    /\ pc' = "done"
    /\ UNCHANGED << threshold_method, threshold_range, threshold_correction_factor,
                    manual_threshold, object_fraction, image_shape, image, mask,
                    objects, calls, global_threshold, local_threshold, blk, lbl,
                    writes, history, raised, threshold_arg, cropped_image,
                    clamped_image, random_state, im_normalized, pre_thresh,
                    new_thresh >>

NextRidlerCalvard ==
    \/ RidlerCalvardEnter
    \/ RidlerCalvardNormalize
    \/ RidlerCalvardIterate
    \/ RidlerCalvardReturn

\* the function runs on: a statement that can execute does
SpecRidlerCalvard ==
    InitRidlerCalvard /\ [][NextRidlerCalvard]_vars /\ WF_vars(NextRidlerCalvard)

(***************************************************************************)
(* Claims about the Ridler-Calvard iteration (under SpecRidlerCalvard)     *)
(***************************************************************************)
\* C16: get_ridler_calvard_threshold terminates, and on a sample of at
\* least 3 elements with min # max it leaves its loop with two successive
\* thresholds that are numbers and differ by at most 0.00001.
C16_RidlerCalvardTerminates ==
    <>(/\ pc = "done"
       /\ im_normalized # << >> =>
             /\ ~IsNaN(pre_thresh)
             /\ ~IsNaN(new_thresh)
             /\ LET diff == Sub(pre_thresh, new_thresh)
                IN  Abs(diff.n) * delta_inverse <= diff.d)

\* the loop moved away from the threshold of Otsu before it settled
C16_Witness ==
    /\ pc = "done"
    /\ Len(im_normalized) >= 5
    /\ Cardinality(Range(im_normalized)) = 4
    /\ pre_thresh # history[1]
    /\ new_thresh = pre_thresh
    /\ returned.kind = "value"

====
